---------------------------- MODULE Spec2Model ----------------------------
(***************************************************************************)
(* Model of newaccuracycheck.py: TextSimilarityAnalyzer and the script's   *)
(* entry point.                                                            *)
(*                                                                         *)
(* Text is a sequence of one-character strings, so that lower-casing,      *)
(* tokenising, os.path.splitext and str.replace are computed character by  *)
(* character.  A similarity score is the exact square of the cosine, kept  *)
(* as a fraction in lowest terms [num, den] (the cosine of two tf-idf rows *)
(* is never negative, so the square determines the score); the squared     *)
(* inverse document frequency (ln(3/2)+1)^2 = 1.975... of a term found in  *)
(* one of the two documents is taken as 79/40.                             *)
(***************************************************************************)
EXTENDS Integers, Sequences, FiniteSets, TLC

----------------------------------------------------------------------------
(* Bounds of the model *)

MaxSheets == 2
MaxRows == 2
MaxLabel == 3
MaxCalls == 2

----------------------------------------------------------------------------
(* Generic helpers *)

SeqsUpTo(S, n) == UNION {[1..k -> S] : k \in 0..n}

RECURSIVE SumSet(_, _)
SumSet(S, f) ==
    IF S = {} THEN 0
    ELSE LET x == CHOOSE y \in S : TRUE IN f[x] + SumSet(S \ {x}, f)

RECURSIVE Gcd(_, _)
Gcd(a, b) == IF b = 0 THEN a ELSE Gcd(b, a % b)

Count(seq, t) == Cardinality({i \in 1..Len(seq) : seq[i] = t})

Range(seq) == {seq[i] : i \in 1..Len(seq)}

----------------------------------------------------------------------------
(* Python values: None, NaN, str *)

NoneVal == [isNone |-> TRUE, val |-> <<>>]
Some(p) == [isNone |-> FALSE, val |-> p]

(* An exception: its class and its message *)
Exc(type, msg) == [type |-> type, msg |-> msg]
NoExc == Exc("none", "")

NaN == [null |-> TRUE, text |-> <<>>]
Str(s) == [null |-> FALSE, text |-> s]

(* str.lower(), on the letters of the model's alphabet *)
LowerChar(c) ==
    CASE c = "A" -> "a"
      [] c = "C" -> "c"
      [] c = "L" -> "l"
      [] c = "S" -> "s"
      [] c = "T" -> "t"
      [] c = "X" -> "x"
      [] OTHER -> c

Lower(s) == [i \in 1..Len(s) |-> LowerChar(s[i])]

(* line 91-92: str(answer).lower() if not pd.isnull(answer) else "" *)
Normalize(cell) == IF cell.null THEN <<>> ELSE Lower(cell.text)

----------------------------------------------------------------------------
(* TfidfVectorizer(stop_words='english', min_df=1) *)

MinDf == 1

NonWordChars == {" ", ",", ".", "-", "/", "!", "?"}
IsWordChar(c) == c \notin NonWordChars

(* The members of sklearn's ENGLISH_STOP_WORDS that the model's texts use *)
StopWords == { <<"t","h","e">>, <<"o","n">>, <<"b","y">>, <<"w","a","s">>,
               <<"i","s">>, <<"i","t">> }

(* token_pattern (?u)\b\w\w+\b : the maximal runs of two or more word characters *)
RECURSIVE Scan(_, _, _)
Scan(s, i, cur) ==
    IF i > Len(s)
    THEN IF Len(cur) >= 2 THEN <<cur>> ELSE <<>>
    ELSE IF IsWordChar(s[i])
         THEN Scan(s, i + 1, Append(cur, s[i]))
         ELSE (IF Len(cur) >= 2 THEN <<cur>> ELSE <<>>) \o Scan(s, i + 1, <<>>)

Tokenize(s) == Scan(s, 1, <<>>)

IsContentWord(t) == t \notin StopWords

(* build_analyzer(): lowercase, tokenize, drop stop words *)
Analyze(doc) == SelectSeq(Tokenize(Lower(doc)), IsContentWord)

(* smooth idf over the two documents, squared, in units of 1/40 *)
Idf2(df) == IF df >= 2 THEN 40 ELSE 79

UnfittedVectorizer == [fitted |-> FALSE, vocabulary |-> {}, df |-> <<>>, fits |-> 0]

DocFreq(t, toks1, toks2) ==
    (IF t \in Range(toks1) THEN 1 ELSE 0) + (IF t \in Range(toks2) THEN 1 ELSE 0)

(* A vectorizer that keeps the document frequency of a term it already knows *)
StaleFitTransform(vec, doc1, doc2) ==
    LET toks1 == Analyze(doc1)
        toks2 == Analyze(doc2)
        vocab == {t \in Range(toks1) \cup Range(toks2) : DocFreq(t, toks1, toks2) >= MinDf}
        df    == [t \in vocab |-> IF vec.fitted /\ t \in vec.vocabulary
                                  THEN vec.df[t] ELSE DocFreq(t, toks1, toks2)]
    IN  IF vocab = {}
        THEN [raised |-> TRUE, exc |-> Exc("ValueError", "empty vocabulary"), vec |-> vec,
              tf1 |-> <<>>, tf2 |-> <<>>]
        ELSE [raised |-> FALSE, exc |-> NoExc,
              vec |-> [fitted |-> TRUE, vocabulary |-> vocab, df |-> df,
                       fits |-> vec.fits + 1],
              tf1 |-> [t \in vocab |-> Count(toks1, t)],
              tf2 |-> [t \in vocab |-> Count(toks2, t)]]

(* vectorizer.fit_transform([doc1, doc2]): the vocabulary and the document
   frequencies are learnt again from the two documents; an empty vocabulary
   raises ValueError and leaves the vectorizer as it was *)
FitTransform(vec, doc1, doc2) ==
    LET toks1 == Analyze(doc1)
        toks2 == Analyze(doc2)
        vocab == {t \in Range(toks1) \cup Range(toks2) : DocFreq(t, toks1, toks2) >= MinDf}
        df    == [t \in vocab |-> DocFreq(t, toks1, toks2)]
    IN  IF vocab = {}
        THEN [raised |-> TRUE, exc |-> Exc("ValueError", "empty vocabulary"), vec |-> vec,
              tf1 |-> <<>>, tf2 |-> <<>>]
        ELSE [raised |-> FALSE, exc |-> NoExc,
              vec |-> [fitted |-> TRUE, vocabulary |-> vocab, df |-> df,
                       fits |-> vec.fits + 1],
              tf1 |-> [t \in vocab |-> Count(toks1, t)],
              tf2 |-> [t \in vocab |-> Count(toks2, t)]]

Zero == [num |-> 0, den |-> 1]

Reduced(n, d) == LET g == Gcd(n, d) IN [num |-> n \div g, den |-> d \div g]

(* linear_kernel(tfidf_matrix[0], tfidf_matrix[1])[0, 0] of the l2-normalised
   tf-idf rows: (a.b)^2 / (|a|^2 |b|^2); a row of zeros stays a row of zeros *)
LinearKernel(vec, tf1, tf2) ==
    LET V   == vec.vocabulary
        dot == SumSet(V, [t \in V |-> tf1[t] * tf2[t] * Idf2(vec.df[t])])
        n1  == SumSet(V, [t \in V |-> tf1[t] * tf1[t] * Idf2(vec.df[t])])
        n2  == SumSet(V, [t \in V |-> tf2[t] * tf2[t] * Idf2(vec.df[t])])
    IN  IF n1 = 0 \/ n2 = 0 THEN Zero ELSE Reduced(dot * dot, n1 * n2)

LogEntry(level, site, what, ctx) ==
    [level |-> level, site |-> site, what |-> what, ctx |-> ctx]

(* The emptiness test reads only the first answer *)
CalculateSimilarityFirstOnly(vec, answer1, answer2) ==
    LET a1 == Normalize(answer1)
        a2 == Normalize(answer2)
    IN  IF a1 # <<>>
        THEN LET ft == FitTransform(vec, a1, a2)
             IN  IF ft.raised
                 THEN [raised |-> TRUE, exc |-> ft.exc, value |-> Zero, vec |-> ft.vec,
                       logs |-> <<LogEntry("ERROR", "calculate_similarity", ft.exc.msg, "")>>]
                 ELSE [raised |-> FALSE, exc |-> NoExc,
                       value |-> LinearKernel(ft.vec, ft.tf1, ft.tf2),
                       vec |-> ft.vec, logs |-> <<>>]
        ELSE [raised |-> FALSE, exc |-> NoExc, value |-> Zero, vec |-> vec,
              logs |-> <<>>]

(* calculate_similarity, lines 90-104 *)
CalculateSimilarity(vec, answer1, answer2) ==
    LET a1 == Normalize(answer1)
        a2 == Normalize(answer2)
    IN  IF a1 # <<>> /\ a2 # <<>>
        THEN LET ft == FitTransform(vec, a1, a2)
             IN  IF ft.raised
                 THEN [raised |-> TRUE, exc |-> ft.exc, value |-> Zero, vec |-> ft.vec,
                       logs |-> <<LogEntry("ERROR", "calculate_similarity", ft.exc.msg, "")>>]
                 ELSE [raised |-> FALSE, exc |-> NoExc,
                       value |-> LinearKernel(ft.vec, ft.tf1, ft.tf2),
                       vec |-> ft.vec, logs |-> <<>>]
        ELSE [raised |-> FALSE, exc |-> NoExc, value |-> Zero, vec |-> vec,
              logs |-> <<>>]


----------------------------------------------------------------------------
(* process_sheet *)

Column1 == "Active Voice"
Column2 == "Passive Voice"
ResultColumns == {"Sheet Name", "Row", "Cosine Similarity", "Result"}

(* line 131: cosine_sim > 0.5, the threshold as the fraction 1/2 *)
ThresholdNum == 1
ThresholdDen == 2

AboveThreshold(score) ==
    score.num * ThresholdDen * ThresholdDen > ThresholdNum * ThresholdNum * score.den

(* lines 131-134 *)
Verdict(score) == IF AboveThreshold(score) THEN "Passed" ELSE "Failed"

EmptyResults == [c \in ResultColumns |-> <<>>]

(* lines 136-139 *)
AppendResult(results, sheet_name, index, cosine_sim) ==
    [c \in ResultColumns |->
        CASE c = "Sheet Name" -> Append(results[c], sheet_name)
          [] c = "Row" -> Append(results[c], index + 1)
          [] c = "Cosine Similarity" -> Append(results[c], cosine_sim)
          [] OTHER -> Append(results[c], Verdict(cosine_sim))]

(* The loop of lines 128-139 from row k on; the handler of lines 143-146 *)
RECURSIVE ProcessRows(_, _, _, _, _)
ProcessRows(vec, sheet_name, dataframe, k, results) ==
    IF k > Len(dataframe.rows)
    THEN [raised |-> FALSE, exc |-> NoExc, value |-> results, vec |-> vec,
          logs |-> <<>>, row |-> 0]
    ELSE LET row == dataframe.rows[k]
         IN  IF Column1 \notin DOMAIN row \/ Column2 \notin DOMAIN row
             THEN [raised |-> TRUE, exc |-> Exc("KeyError", "column not found"),
                   value |-> EmptyResults, vec |-> vec,
                   logs |-> <<LogEntry("ERROR", "process_sheet", "column not found",
                                       sheet_name)>>,
                   row |-> k]
             ELSE LET cs == CalculateSimilarity(vec, row[Column1], row[Column2])
                  IN  IF cs.raised
                      THEN [raised |-> TRUE, exc |-> cs.exc, value |-> EmptyResults,
                            vec |-> cs.vec,
                            logs |-> cs.logs \o
                                     <<LogEntry("ERROR", "process_sheet", cs.exc.msg,
                                                sheet_name)>>,
                            row |-> k]
                      ELSE ProcessRows(cs.vec, sheet_name, dataframe, k + 1,
                                       AppendResult(results, sheet_name,
                                                    dataframe.index[k], cs.value))

(* A handler that logs the failure of a row and returns the rows scored so far *)
ProcessSheetSwallow(vec, sheet_name, dataframe) ==
    LET r == ProcessRows(vec, sheet_name, dataframe, 1, EmptyResults)
    IN  [r EXCEPT !.raised = FALSE, !.exc = NoExc]

(* process_sheet, lines 117-146 *)
ProcessSheet(vec, sheet_name, dataframe) ==
    ProcessRows(vec, sheet_name, dataframe, 1, EmptyResults)

----------------------------------------------------------------------------
(* Paths: os.path.splitext, os.path.abspath, str.replace *)

LastIndexOf(s, c) ==
    LET I == {i \in 1..Len(s) : s[i] = c}
    IN  IF I = {} THEN 0 ELSE CHOOSE i \in I : \A j \in I : j <= i

(* os.path.splitext: the extension starts at the last dot of the last
   component, unless only dots precede it there *)
SplitExt(p) ==
    LET sep == LastIndexOf(p, "/")
        dot == LastIndexOf(p, ".")
    IN  IF dot > sep /\ \E i \in (sep + 1)..(dot - 1) : p[i] # "."
        THEN [root |-> SubSeq(p, 1, dot - 1), ext |-> SubSeq(p, dot, Len(p))]
        ELSE [root |-> p, ext |-> <<>>]

StartsWith(s, prefix) ==
    Len(s) >= Len(prefix) /\ SubSeq(s, 1, Len(prefix)) = prefix

(* str.replace(old, new): every occurrence, left to right, not overlapping *)
RECURSIVE Replace(_, _, _)
Replace(s, old, new) ==
    IF s = <<>> THEN <<>>
    ELSE IF StartsWith(s, old)
         THEN new \o Replace(SubSeq(s, Len(old) + 1, Len(s)), old, new)
         ELSE <<Head(s)>> \o Replace(Tail(s), old, new)

(* a in b, on strings *)
IsSubstring(a, b) ==
    \E i \in 0..(Len(b) - Len(a)) : SubSeq(b, i + 1, i + Len(a)) = a

Cwd == <<"/", "w">>

(* os.path.abspath, for paths without . and .. components *)
AbsPath(p) == IF StartsWith(p, <<"/">>) THEN p ELSE Cwd \o <<"/">> \o p

DotXlsx == <<".", "x", "l", "s", "x">>
DotXls == <<".", "x", "l", "s">>
ResultsSuffix == <<"-", "r", "e", "s", "u", "l", "t", "s", ".", "x", "l", "s", "x">>

(* The paths of the model *)
P_xlsx == <<"/", "a", ".", "x", "l", "s", "x">>
P_xls == <<"/", "a", ".", "x", "l", "s">>
P_XLSX == <<"/", "a", ".", "X", "L", "S", "X">>
P_csv == <<"/", "a", ".", "c", "s", "v">>
P_rel == <<"b", ".", "x", "l", "s", "x">>
P_dir == <<"/", "d">>
Paths == {P_xlsx, P_xls, P_XLSX, P_csv, P_rel, P_dir}

Kinds == {"missing", "dir", "file"}

(* File systems with at most one entry among the paths of the model *)
FileSystems ==
    {[p \in Paths |-> IF p = q THEN k ELSE "missing"] : q \in Paths, k \in Kinds}

(* validate_excel_path, lines 57-77.  lg is "set" once self.logger exists:
   the handler's self.logger.error raises AttributeError before that *)
ValidateExcelPath(fsys, lg, path) ==
    LET e == CASE path.isNone -> Exc("TypeError", "path should be string, not NoneType")
               [] ~path.isNone /\ fsys[path.val] = "missing" ->
                      Exc("FileNotFoundError", "File not found")
               [] ~path.isNone /\ fsys[path.val] = "dir" -> Exc("ValueError", "Not a file")
               [] ~path.isNone /\ fsys[path.val] = "file"
                    /\ Lower(SplitExt(path.val).ext) \notin {DotXlsx, DotXls} ->
                      Exc("ValueError", "Not a valid Excel file")
               [] OTHER -> NoExc
    IN  IF e = NoExc
        THEN [raised |-> FALSE, exc |-> NoExc, value |-> AbsPath(path.val), logs |-> <<>>]
        ELSE IF lg = "set"
             THEN [raised |-> TRUE, exc |-> e, value |-> <<>>,
                   logs |-> <<LogEntry("ERROR", "validate_excel_path", e.msg, "")>>]
             ELSE [raised |-> TRUE,
                   exc |-> Exc("AttributeError", "object has no attribute 'logger'"),
                   value |-> <<>>, logs |-> <<>>]

----------------------------------------------------------------------------
(* Inputs *)

T_cat == <<"c", "a", "t">>
T_dog == <<"d", "o", "g">>
T_TheCatSat == <<"T", "h", "e", " ", "C", "a", "t", " ", "s", "a", "t">>
T_The == <<"T", "h", "e">>
T_a == <<"a">>
T_space == <<" ">>
T_catCatDog == <<"c", "a", "t", ",", " ", "C", "A", "T", " ", "d", "o", "g", "!">>

(* The cell values calculate_similarity is called with *)
CellValues == {NaN, Str(<<>>), Str(T_space), Str(T_The), Str(T_a), Str(T_cat),
               Str(T_dog), Str(T_TheCatSat), Str(T_catCatDog)}

RowOf(a, p) == (Column1 :> a) @@ (Column2 :> p)

(* The rows of the sheets of a workbook *)
WorkbookRows == {RowOf(Str(T_TheCatSat), Str(T_cat)), RowOf(NaN, Str(T_cat)),
                 RowOf(Str(T_The), Str(T_a))}

(* The rows of a table handed to process_sheet *)
SheetRows == WorkbookRows \cup {RowOf(Str(T_cat), Str(<<>>)), RowOf(Str(<<>>), NaN),
                               RowOf(Str(T_cat), Str(T_dog))}

(* The rows of a sheet without the column 'Passive Voice' *)
ShortRows == {(Column1 :> Str(T_cat))}

(* pandas' default RangeIndex *)
RangeIndex(n) == [i \in 1..n |-> i - 1]

(* xls.parse(sheet_name): a table under the default index *)
ParsedFrames ==
    {[index |-> RangeIndex(Len(rows)), rows |-> rows] :
        rows \in SeqsUpTo(WorkbookRows, MaxRows) \cup SeqsUpTo(ShortRows, MaxRows)}

(* Any table: any index labels *)
AnyFrames ==
    UNION {{[index |-> idx, rows |-> rows] : idx \in [1..Len(rows) -> 0..MaxLabel]} :
              rows \in SeqsUpTo(SheetRows, MaxRows) \cup SeqsUpTo(ShortRows, MaxRows)}

AllSheetNames == <<"Sheet1", "Sheet2", "Sheet3", "Sheet4">>

----------------------------------------------------------------------------
(* The program *)

VARIABLES
    pc,                 \* the position of the script, or of the caller of a method
    env,                \* os.environ's EXCEL_FILE_PATH: a path or None
    fs,                 \* the file system: what each path is
    input_excel_file,   \* the local variable of the entry point
    validated,          \* the argument validate_excel_path was called with
    excel_file_path,    \* self.excel_file_path
    logger,             \* "set" once self.logger is assigned
    vectorizer,         \* self.vectorizer
    log,                \* text_similarity.log
    sheet_names,        \* xls.sheet_names
    parsed,             \* the tables xls.parse has returned, in order
    all_results,        \* all_results of analyze_excel_file
    output_excel_file,  \* output_excel_file of analyze_excel_file
    written,            \* the workbooks written: path, sheet name, table
    stdout,             \* what the script has printed
    exc,                \* the exception raised last
    failure,            \* where it was raised first
    exit_code,          \* the exit status, -1 while the script runs
    arg,                \* the arguments of the last direct call of a method
    ret,                \* what that call returned or raised
    prev,               \* the vectorizer before that call
    ncalls              \* the number of direct calls made

vars == <<pc, env, fs, input_excel_file, validated, excel_file_path, logger,
          vectorizer, log, sheet_names, parsed, all_results, output_excel_file,
          written, stdout, exc, failure, exit_code, arg, ret, prev, ncalls>>

NoFailure == [site |-> "none", sheet |-> 0, row |-> 0]
NoCall == [raised |-> FALSE, exc |-> NoExc]

InitAnalyzer ==
    /\ validated = NoneVal
    /\ excel_file_path = <<>>
    /\ logger = "unset"
    /\ vectorizer = UnfittedVectorizer
    /\ log = <<>>
    /\ sheet_names = <<>>
    /\ parsed = <<>>
    /\ all_results = <<>>
    /\ output_excel_file = <<>>
    /\ written = <<>>
    /\ stdout = <<>>
    /\ exc = NoExc
    /\ failure = NoFailure
    /\ exit_code = -1
    /\ arg = <<>>
    /\ ret = NoCall
    /\ prev = UnfittedVectorizer
    /\ ncalls = 0

(* The script is started: any environment, any file system *)
Init ==
    /\ pc = "getenv"
    /\ env \in {NoneVal} \cup {Some(p) : p \in Paths}
    /\ fs \in FileSystems
    /\ input_excel_file = NoneVal
    /\ InitAnalyzer

(* lines 179-180 *)
MainGetenv ==
    /\ pc = "getenv"
    /\ input_excel_file' = env
    /\ pc' = IF env.isNone THEN "prompt" ELSE "construct"
    /\ UNCHANGED <<env, fs, validated, excel_file_path, logger, vectorizer, log,
                   sheet_names, parsed, all_results, output_excel_file, written,
                   stdout, exc, failure, exit_code, arg, ret, prev, ncalls>>

(* line 181: the user types a path *)
MainPrompt ==
    /\ pc = "prompt"
    /\ \E p \in Paths : input_excel_file' = Some(p)
    /\ pc' = "construct"
    /\ UNCHANGED <<env, fs, validated, excel_file_path, logger, vectorizer, log,
                   sheet_names, parsed, all_results, output_excel_file, written,
                   stdout, exc, failure, exit_code, arg, ret, prev, ncalls>>

(* line 183, __init__ lines 15-21: the path is read from the environment again *)
Construct ==
    /\ pc = "construct"
    /\ LET v == ValidateExcelPath(fs, logger, env)
       IN  /\ validated' = env
           /\ log' = log \o v.logs
           /\ IF v.raised
              THEN /\ exc' = v.exc
                   /\ failure' = [site |-> "validate_excel_path", sheet |-> 0, row |-> 0]
                   /\ pc' = "main_except"
                   /\ UNCHANGED <<excel_file_path, vectorizer, logger>>
              ELSE /\ excel_file_path' = v.value
                   /\ vectorizer' = UnfittedVectorizer
                   /\ logger' = "set"
                   /\ pc' = "analyze"
                   /\ UNCHANGED <<exc, failure>>
    /\ UNCHANGED <<env, fs, input_excel_file, sheet_names, parsed, all_results,
                   output_excel_file, written, stdout, exit_code, arg, ret, prev,
                   ncalls>>

(* lines 150-151: the workbook opens and names its sheets *)
AnalyzeOpen ==
    /\ pc = "analyze"
    /\ \E n \in 0..MaxSheets : sheet_names' = SubSeq(AllSheetNames, 1, n)
    /\ all_results' = <<>>
    /\ pc' = "sheets"
    /\ UNCHANGED <<env, fs, input_excel_file, validated, excel_file_path, logger,
                   vectorizer, log, parsed, output_excel_file, written, stdout, exc,
                   failure, exit_code, arg, ret, prev, ncalls>>

(* line 150: the file is no workbook pandas can read *)
AnalyzeOpenFails ==
    /\ pc = "analyze"
    /\ exc' = Exc("ValueError", "Excel file format cannot be determined")
    /\ failure' = [site |-> "ExcelFile", sheet |-> 0, row |-> 0]
    /\ pc' = "analyze_except"
    /\ UNCHANGED <<env, fs, input_excel_file, validated, excel_file_path, logger,
                   vectorizer, log, sheet_names, parsed, all_results,
                   output_excel_file, written, stdout, exit_code, arg, ret, prev,
                   ncalls>>

(* lines 153-156: one turn of the loop over the sheets *)
AnalyzeSheet ==
    /\ pc = "sheets"
    /\ Len(all_results) < Len(sheet_names)
    /\ \E df \in ParsedFrames :
         LET i == Len(all_results) + 1
             r == ProcessSheet(vectorizer, sheet_names[i], df)
         IN  /\ parsed' = Append(parsed, df)
             /\ vectorizer' = r.vec
             /\ log' = log \o r.logs
             /\ IF r.raised
                THEN /\ exc' = r.exc
                     /\ failure' = [site |-> "process_sheet", sheet |-> i, row |-> r.row]
                     /\ pc' = "analyze_except"
                     /\ UNCHANGED all_results
                ELSE /\ all_results' = Append(all_results, r.value)
                     /\ UNCHANGED <<exc, failure, pc>>
    /\ UNCHANGED <<env, fs, input_excel_file, validated, excel_file_path, logger,
                   sheet_names, output_excel_file, written, stdout, exit_code, arg,
                   ret, prev, ncalls>>

RECURSIVE Concat(_)
Concat(seqs) == IF seqs = <<>> THEN <<>> ELSE Head(seqs) \o Concat(Tail(seqs))

Reverse(s) == [i \in 1..Len(s) |-> s[Len(s) + 1 - i]]

(* The sheets are flattened last to first *)
ResultsDfReversed(results) ==
    [key \in DOMAIN results[1] |->
        Concat(Reverse([i \in 1..Len(results) |-> results[i][key]]))]

(* lines 158-161, for a non-empty all_results *)
ResultsDf(results) ==
    [key \in DOMAIN results[1] |->
        Concat([i \in 1..Len(results) |-> results[i][key]])]

(* ExcelWriter's check_extension for the xlsxwriter engine: the extension,
   without its dot, must occur in ".xlsx" *)
CheckExtension(path) ==
    LET ext == SplitExt(path).ext
    IN  IsSubstring(IF StartsWith(ext, <<".">>) THEN Tail(ext) ELSE ext, DotXlsx)

(* lines 158-169, after the last sheet *)
AnalyzeWrite ==
    /\ pc = "sheets"
    /\ Len(all_results) = Len(sheet_names)
    /\ IF all_results = <<>>
       THEN /\ exc' = Exc("IndexError", "list index out of range")
            /\ failure' = [site |-> "results_df", sheet |-> 0, row |-> 0]
            /\ pc' = "analyze_except"
            /\ UNCHANGED <<output_excel_file, written, log, exit_code>>
       ELSE LET out == Replace(excel_file_path, DotXlsx, ResultsSuffix)
            IN  /\ output_excel_file' = out
                /\ IF CheckExtension(out)
                   THEN /\ written' = Append(written,
                                        [path |-> out, sheet |-> "Results",
                                         table |-> ResultsDf(all_results)])
                        /\ log' = Append(log, LogEntry("INFO", "analyze_excel_file",
                                                       "Results saved", ""))
                        /\ pc' = "done"
                        /\ exit_code' = 0
                        /\ UNCHANGED <<exc, failure>>
                   ELSE /\ exc' = Exc("ValueError", "Invalid extension for engine")
                        /\ failure' = [site |-> "ExcelWriter", sheet |-> 0, row |-> 0]
                        /\ pc' = "analyze_except"
                        /\ UNCHANGED <<written, log, exit_code>>
    /\ UNCHANGED <<env, fs, input_excel_file, validated, excel_file_path, logger,
                   vectorizer, sheet_names, parsed, all_results, stdout, arg, ret,
                   prev, ncalls>>

(* lines 171-174 *)
AnalyzeExcept ==
    /\ pc = "analyze_except"
    /\ log' = Append(log, LogEntry("ERROR", "analyze_excel_file", exc.msg, ""))
    /\ pc' = "main_except"
    /\ UNCHANGED <<env, fs, input_excel_file, validated, excel_file_path, logger,
                   vectorizer, sheet_names, parsed, all_results, output_excel_file,
                   written, stdout, exc, failure, exit_code, arg, ret, prev, ncalls>>

(* lines 186-187: the message is printed and the script runs off its end *)
MainExcept ==
    /\ pc = "main_except"
    /\ stdout' = Append(stdout, <<"An error occurred: ", exc.msg>>)
    /\ pc' = "done"
    /\ exit_code' = 0
    /\ UNCHANGED <<env, fs, input_excel_file, validated, excel_file_path, logger,
                   vectorizer, log, sheet_names, parsed, all_results,
                   output_excel_file, written, exc, failure, arg, ret, prev, ncalls>>

Next ==
    \/ MainGetenv
    \/ MainPrompt
    \/ Construct
    \/ AnalyzeOpen
    \/ AnalyzeOpenFails
    \/ AnalyzeSheet
    \/ AnalyzeWrite
    \/ AnalyzeExcept
    \/ MainExcept

Spec == Init /\ [][Next]_vars

----------------------------------------------------------------------------
(* The methods called directly, on an analyzer constructed for /a.xlsx *)

InitConstructed ==
    /\ env = Some(P_xlsx)
    /\ fs = [p \in Paths |-> IF p = P_xlsx THEN "file" ELSE "missing"]
    /\ input_excel_file = Some(P_xlsx)
    /\ validated = Some(P_xlsx)
    /\ excel_file_path = AbsPath(P_xlsx)
    /\ logger = "set"
    /\ vectorizer = UnfittedVectorizer
    /\ log = <<>>
    /\ sheet_names = <<>>
    /\ parsed = <<>>
    /\ all_results = <<>>
    /\ output_excel_file = <<>>
    /\ written = <<>>
    /\ stdout = <<>>
    /\ exc = NoExc
    /\ failure = NoFailure
    /\ exit_code = -1
    /\ arg = <<>>
    /\ ret = NoCall
    /\ prev = UnfittedVectorizer
    /\ ncalls = 0

InitSheet == pc = "call_process_sheet" /\ InitConstructed

(* analyzer.process_sheet(sheet_name, dataframe), on any table *)
CallProcessSheet ==
    /\ pc = "call_process_sheet"
    /\ ncalls = 0
    /\ \E df \in AnyFrames :
         LET r == ProcessSheet(vectorizer, AllSheetNames[1], df)
         IN  /\ arg' = df
             /\ ret' = r
             /\ prev' = vectorizer
             /\ vectorizer' = r.vec
             /\ log' = log \o r.logs
             /\ exc' = r.exc
    /\ ncalls' = ncalls + 1
    /\ UNCHANGED <<pc, env, fs, input_excel_file, validated, excel_file_path, logger,
                   sheet_names, parsed, all_results, output_excel_file, written,
                   stdout, failure, exit_code>>

SpecSheet == InitSheet /\ [][CallProcessSheet]_vars

InitSim == pc = "call_calculate_similarity" /\ InitConstructed

(* analyzer.calculate_similarity(answer1, answer2), call after call *)
CallCalculateSimilarity ==
    /\ pc = "call_calculate_similarity"
    /\ ncalls < MaxCalls
    /\ \E a1 \in CellValues, a2 \in CellValues :
         LET r == CalculateSimilarity(vectorizer, a1, a2)
         IN  /\ arg' = <<a1, a2>>
             /\ ret' = r
             /\ prev' = vectorizer
             /\ vectorizer' = r.vec
             /\ log' = log \o r.logs
             /\ exc' = r.exc
    /\ ncalls' = ncalls + 1
    /\ UNCHANGED <<pc, env, fs, input_excel_file, validated, excel_file_path, logger,
                   sheet_names, parsed, all_results, output_excel_file, written,
                   stdout, failure, exit_code>>

SpecSim == InitSim /\ [][CallCalculateSimilarity]_vars

----------------------------------------------------------------------------
(* Properties *)

BothNonEmpty(a1, a2) == Normalize(a1) # <<>> /\ Normalize(a2) # <<>>

(* What calculate_similarity does with a pair on a vectorizer never fitted *)
Fresh(a1, a2) == CalculateSimilarity(UnfittedVectorizer, a1, a2)

(* The row cannot be processed: a designated column is missing, or scoring raises *)
RowFails(row) ==
    \/ Column1 \notin DOMAIN row
    \/ Column2 \notin DOMAIN row
    \/ Fresh(row[Column1], row[Column2]).raised

SomeRowFails == \E i \in 1..Len(parsed) : \E k \in 1..Len(parsed[i].rows) :
                    RowFails(parsed[i].rows[k])

(* C1: once the processing of a row of any sheet has failed, analyze_excel_file
   is raising to its caller (it is in its handler or has left it with the
   exception), the failed sheet adds nothing to all_results, and no output
   workbook has been or will be written, however many sheets went well before. *)
C1_NoWriteAfterSheetFailure ==
    SomeRowFails =>
        /\ written = <<>>
        /\ output_excel_file = <<>>
        /\ pc \in {"analyze_except", "main_except", "done"}
        /\ exc.type \in {"KeyError", "ValueError"}
        /\ Len(all_results) = Len(parsed) - 1

(* C1 witness: the second sheet fails after a first sheet with rows was
   processed, and the script has ended *)
C1_Witness ==
    /\ pc = "done"
    /\ failure.site = "process_sheet"
    /\ failure.sheet = 2
    /\ Len(all_results) = 1
    /\ Len(all_results[1]["Row"]) = MaxRows

RowsBefore(i) == SumSet(1..(i - 1), [j \in 1..(i - 1) |-> Len(parsed[j].rows)])

(* C2: on a successful run the Report Table has the four columns, each as long
   as the number of input rows of all sheets, and entry n of each column
   describes row k of sheet i, where n counts the rows of the sheets before i
   and then k: sheet order first, row order within the sheet. *)
C2_ReportTableOrder ==
    (pc = "done" /\ written # <<>>) =>
        /\ Len(written) = 1
        /\ Len(parsed) = Len(sheet_names)
        /\ LET t == written[1].table
           IN  /\ DOMAIN t = ResultColumns
               /\ \A c \in ResultColumns : Len(t[c]) = RowsBefore(Len(parsed) + 1)
               /\ \A i \in 1..Len(parsed) : \A k \in 1..Len(parsed[i].rows) :
                     LET n == RowsBefore(i) + k
                         row == parsed[i].rows[k]
                         score == Fresh(row[Column1], row[Column2]).value
                     IN  /\ t["Sheet Name"][n] = sheet_names[i]
                         /\ t["Row"][n] = k
                         /\ t["Cosine Similarity"][n] = score
                         /\ t["Result"][n] = Verdict(score)

(* C2 witness: a report of two sheets with different rows was written *)
C2_Witness ==
    /\ pc = "done"
    /\ Len(written) = 1
    /\ Len(parsed) = 2
    /\ Len(parsed[1].rows) = 1
    /\ Len(parsed[2].rows) = 2
    /\ written[1].table["Result"] = <<"Passed", "Failed", "Passed">>

EmptySide(row) == ~BothNonEmpty(row[Column1], row[Column2])

(* The rows process_sheet got through: all of them, or those before the one
   that raised *)
RowsDone == IF ret.raised THEN ret.row - 1 ELSE Len(arg.rows)

(* C3: a row with a cell that is missing or normalizes to the empty string
   (one or both) gets the score 0.0 and the verdict 'Failed', and the
   vectorizer is not invoked for it: process_sheet fits the vectorizer once
   for each row with two non-empty cells, and not at all for the others. *)
C3_EmptySideScoresZero ==
    ncalls = 1 =>
        /\ vectorizer.fits - prev.fits =
              Cardinality({k \in 1..RowsDone : ~EmptySide(arg.rows[k])})
        /\ ~ret.raised =>
              \A k \in 1..Len(arg.rows) :
                  EmptySide(arg.rows[k]) =>
                      /\ ret.value["Cosine Similarity"][k] = Zero
                      /\ ret.value["Result"][k] = "Failed"

(* C3 witness: a table of one row with an empty second cell and one row with
   both cells missing or empty was processed *)
C3_Witness ==
    /\ ncalls = 1
    /\ ~ret.raised
    /\ Len(arg.rows) = 2
    /\ arg.rows[1] = RowOf(Str(T_cat), Str(<<>>))
    /\ arg.rows[2] = RowOf(Str(<<>>), NaN)
    /\ ret.value["Result"] = <<"Failed", "Failed">>

InvalidPath(p) ==
    \/ fs[p] # "file"
    \/ Lower(SplitExt(p).ext) \notin {DotXlsx, DotXls}

ValidationError(p) ==
    CASE fs[p] = "missing" -> Exc("FileNotFoundError", "File not found")
      [] fs[p] = "dir" -> Exc("ValueError", "Not a file")
      [] OTHER -> Exc("ValueError", "Not a valid Excel file")

(* C4: for an invalid input path, construction fails before any sheet is read,
   with the validation error of that case (not found / not a file / wrong
   extension), and the log holds an error entry naming that reason. *)
C4_ValidationErrorLogged ==
    (pc \notin {"getenv", "prompt", "construct"} /\ ~validated.isNone
        /\ InvalidPath(validated.val)) =>
        /\ parsed = <<>>
        /\ sheet_names = <<>>
        /\ exc = ValidationError(validated.val)
        /\ \E n \in 1..Len(log) :
              /\ log[n].level = "ERROR"
              /\ log[n].site = "validate_excel_path"
              /\ log[n].what = ValidationError(validated.val).msg

(* C5: for an accepted input path, the output path is the input path with its
   extension replaced by the report suffix, it differs from the input path,
   and no report is written to the input workbook. *)
C5_OutputIsNewFile ==
    output_excel_file # <<>> =>
        /\ output_excel_file = SplitExt(excel_file_path).root \o ResultsSuffix
        /\ output_excel_file # excel_file_path
        /\ \A n \in 1..Len(written) : written[n].path # excel_file_path

(* C6: for two normalized strings that are both non-empty, calculate_similarity
   does not fail and returns a score in [0.0, 1.0]. *)
C6_NonEmptyPairNeverFails ==
    (ncalls >= 1 /\ BothNonEmpty(arg[1], arg[2])) =>
        /\ ~ret.raised
        /\ 0 <= ret.value.num
        /\ ret.value.num <= ret.value.den

(* C7: when an error escaped the constructor or analyze_excel_file, a message
   was printed and the script ends with a failure status. *)
C7_ErrorExitsWithFailure ==
    (pc = "done" /\ exc # NoExc) =>
        /\ stdout # <<>>
        /\ exit_code # 0

(* C8: the path handed to validate_excel_path is the path the user supplied,
   from the environment or, when that is unset, at the prompt. *)
C8_SuppliedPathIsValidated ==
    pc \notin {"getenv", "prompt", "construct"} => validated = input_excel_file

(* C9: the 'Row' value of the k-th Result Row of process_sheet is k, whatever
   the index labels of the table. *)
C9_RowIsPosition ==
    (ncalls = 1 /\ ~ret.raised) =>
        \A k \in 1..Len(arg.rows) : ret.value["Row"][k] = k

(* C10: whatever calls came before on the same analyzer, calculate_similarity
   returns for a pair what it returns on a vectorizer never fitted: the same
   score, or the same failure. *)
C10_ScoreIndependentOfHistory ==
    ncalls >= 1 =>
        /\ ret.raised = Fresh(arg[1], arg[2]).raised
        /\ ret.exc = Fresh(arg[1], arg[2]).exc
        /\ ret.value = Fresh(arg[1], arg[2]).value

(* C10 witness: a pair was scored on a vectorizer that an earlier call had
   fitted to a vocabulary sharing a term with it, under another document
   frequency *)
C10_Witness ==
    /\ ncalls = MaxCalls
    /\ ~ret.raised
    /\ prev.fitted
    /\ \E t \in prev.vocabulary \cap vectorizer.vocabulary :
          prev.df[t] # vectorizer.df[t]
    /\ ret.value.num # 0

=============================================================================
